---- MODULE Spec2Model ----
(***************************************************************************)
(* Model of the proxy verification and scoring engine (check_proxy.py,     *)
(* with the entry parser of check_domain.py).                              *)
(*                                                                         *)
(* Text is modelled as a sequence of one-character strings, so that        *)
(* formatting a ledger line and parsing it back are computed the way the   *)
(* code computes them.                                                     *)
(***************************************************************************)
EXTENDS Integers, Sequences, FiniteSets, TLC

VARIABLES
  success_file,   \* the ledger file: [exists, lines]
  last_upsert,    \* arguments of the most recent save_success_proxy call
  before_upsert,  \* the ledger file as that call found it
  repeated        \* that call repeated the arguments of the call before it

ledgerVars == <<success_file, last_upsert, before_upsert, repeated>>

VARIABLES
  trials,         \* the test_times argument of one check_proxy_multiple call
  sample          \* the state of that call

samplerVars == <<trials, sample>>

VARIABLES
  lines,            \* the lines of the input file
  test_times,       \* trials per endpoint
  concurrency,      \* max_workers of the thread pool
  task,             \* one process_proxy_line call per line: where it stands
  counters,         \* the shared counters dictionary
  file_lock,        \* holder of the global lock: NoThread, MainThread or a task
  main,             \* where the main thread stands
  collected,        \* the tasks whose future as_completed has yielded
  success_proxies   \* the results main has collected, in completion order

runVars == <<lines, test_times, concurrency, task, counters, file_lock, main,
             collected, success_proxies>>

VARIABLES
  parsed          \* one call of a parser: which one, its input, its result

parseVars == <<parsed>>

VARIABLES
  scored          \* one call of calculate_score: its arguments and values

scoreVars == <<scored>>

VARIABLES
  selected        \* one call of select_top_proxies: its arguments and result

selectVars == <<selected>>

VARIABLES
  upserter        \* threads calling save_success_proxy: where each stands

upsertVars == <<upserter>>

vars == <<ledgerVars, samplerVars, runVars, parseVars, scoreVars, selectVars,
          upsertVars>>

(***************************************************************************)
(* Text helpers (Python str methods and the regular expressions used).     *)
(***************************************************************************)
Digits == {"0", "1", "2", "3", "4", "5", "6", "7", "8", "9"}

IsDigit(c) == c \in Digits

IsSpace(c) == c \in {" ", "\t", "\n"}

DigitVal(c) ==
  CASE c = "0" -> 0 [] c = "1" -> 1 [] c = "2" -> 2 [] c = "3" -> 3
    [] c = "4" -> 4 [] c = "5" -> 5 [] c = "6" -> 6 [] c = "7" -> 7
    [] c = "8" -> 8 [] c = "9" -> 9

DigitChar(d) ==
  CASE d = 0 -> "0" [] d = 1 -> "1" [] d = 2 -> "2" [] d = 3 -> "3"
    [] d = 4 -> "4" [] d = 5 -> "5" [] d = 6 -> "6" [] d = 7 -> "7"
    [] d = 8 -> "8" [] d = 9 -> "9"

\* int(s) for a non-empty string of ASCII digits
RECURSIVE DigitsToInt(_)
DigitsToInt(s) ==
  IF Len(s) = 0 THEN 0
  ELSE 10 * DigitsToInt(SubSeq(s, 1, Len(s) - 1)) + DigitVal(s[Len(s)])

\* str(n) for an integer n >= 0
RECURSIVE IntToStr(_)
IntToStr(n) ==
  IF n < 10 THEN <<DigitChar(n)>>
  ELSE IntToStr(n \div 10) \o <<DigitChar(n % 10)>>

\* s.startswith(p)
\* a comparison of the first characters only
StartsWith_first_char(s, p) == Len(s) >= 1 /\ Len(p) >= 1 /\ s[1] = p[1]

StartsWith(s, p) == Len(s) >= Len(p) /\ SubSeq(s, 1, Len(p)) = p

\* s.endswith(p)
EndsWith(s, p) ==
  Len(s) >= Len(p) /\ SubSeq(s, Len(s) - Len(p) + 1, Len(s)) = p

\* p in s
Contains(s, p) ==
  \E i \in 1..(Len(s) - Len(p) + 1) : SubSeq(s, i, i + Len(p) - 1) = p

\* s.strip()
RECURSIVE Strip(_)
Strip(s) ==
  IF Len(s) = 0 THEN s
  ELSE IF IsSpace(s[1]) THEN Strip(Tail(s))
  ELSE IF IsSpace(s[Len(s)]) THEN Strip(SubSeq(s, 1, Len(s) - 1))
  ELSE s

\* s.split(): the whitespace-separated tokens of s
RECURSIVE Split(_)
Split(s) ==
  IF Len(s) = 0 THEN <<>>
  ELSE IF IsSpace(s[1]) THEN Split(Tail(s))
  ELSE LET n == IF \E i \in 1..Len(s) : IsSpace(s[i])
                 THEN (CHOOSE i \in 1..Len(s) :
                         IsSpace(s[i]) /\ \A j \in 1..(i - 1) : ~IsSpace(s[j])) - 1
                 ELSE Len(s)
       IN <<SubSeq(s, 1, n)>> \o Split(SubSeq(s, n + 1, Len(s)))

\* re.sub(r'[^0-9]', '', s)
StripNonDigits(s) == SelectSeq(s, IsDigit)

\* length of the longest run of digits starting at position i of s
RECURSIVE DigitRun(_, _)
DigitRun(s, i) ==
  IF i > Len(s) \/ ~IsDigit(s[i]) THEN 0 ELSE 1 + DigitRun(s, i + 1)

(***************************************************************************)
(* Persistent ranked store: save_success_proxy.                            *)
(***************************************************************************)
\* value get_response_time gives to a line that has no '#<digits>'
UnparsableRank == 99999

\* sort key of a ledger line: re.search(r'#(\d+)', line)
get_response_time(line) ==
  LET hits == {i \in 1..Len(line) : line[i] = "#" /\ DigitRun(line, i + 1) > 0}
  IN IF hits = {} THEN UnparsableRank
     ELSE LET i == CHOOSE h \in hits : \A g \in hits : h <= g
          IN DigitsToInt(SubSeq(line, i + 1, i + DigitRun(line, i + 1)))

\* list.sort(key=...) is stable: an element goes after every element whose
\* key is not greater than its own
\* a sort that is not stable: an element goes before the elements of equal key
RECURSIVE InsertByKey_unstable(_, _, _)
InsertByKey_unstable(sorted, x, k) ==
  IF Len(sorted) = 0 THEN <<x>>
  ELSE IF get_response_time(sorted[Len(sorted)]) < k THEN Append(sorted, x)
  ELSE Append(InsertByKey_unstable(SubSeq(sorted, 1, Len(sorted) - 1), x, k),
              sorted[Len(sorted)])

RECURSIVE InsertByKey(_, _, _)
InsertByKey(sorted, x, k) ==
  IF Len(sorted) = 0 THEN <<x>>
  ELSE IF get_response_time(sorted[Len(sorted)]) <= k THEN Append(sorted, x)
  ELSE Append(InsertByKey(SubSeq(sorted, 1, Len(sorted) - 1), x, k),
              sorted[Len(sorted)])

\* the lines written back in the order they were read
sort_lines_skipped(ls) == ls

RECURSIVE sort_lines(_)
sort_lines(ls) ==
  IF Len(ls) = 0 THEN <<>>
  ELSE InsertByKey(sort_lines(SubSeq(ls, 1, Len(ls) - 1)), ls[Len(ls)],
                   get_response_time(ls[Len(ls)]))

\* rt_str: str(avg_response_time) with the unit appended
rt_str(avg) == IntToStr(avg) \o <<"m", "s">>

new_line(proxy, avg) == proxy \o <<"#">> \o rt_str(avg)

\* the lines read from the ledger file: stripped, empty lines dropped;
\* an absent file, or a failed read, gives no lines
existing_lines(f, readOk) ==
  IF f.exists /\ readOk
  THEN SelectSeq([i \in 1..Len(f.lines) |-> Strip(f.lines[i])],
                 LAMBDA l : Len(l) > 0)
  ELSE <<>>

\* the new line appended whether or not the key is already there
update_or_append_always(ls, proxy, nl) == Append(ls, nl)

\* replace the first line that starts with proxy + '#', else append
update_or_append(ls, proxy, nl) ==
  LET hits == {i \in 1..Len(ls) : StartsWith(ls[i], proxy \o <<"#">>)}
  IN IF hits = {} THEN Append(ls, nl)
     ELSE LET i == CHOOSE h \in hits : \A g \in hits : h <= g
          IN [ls EXCEPT ![i] = nl]

\* the ledger file after save_success_proxy(input_file, proxy, avg)
save_success_proxy(f, proxy, avg, readOk) ==
  [exists |-> TRUE,
   lines  |-> sort_lines(update_or_append(existing_lines(f, readOk), proxy,
                                          new_line(proxy, avg)))]

\* no thread is calling save_success_proxy
UpserterIdle == upserter = <<>>

\* read_success_proxies: key and latency of one ledger line
\* (line.split('#', 1), then the digits of the second part)
HashPos(line) == CHOOSE i \in 1..Len(line) :
                   line[i] = "#" /\ \A j \in 1..(i - 1) : line[j] # "#"

proxy_part(line) == SubSeq(line, 1, HashPos(line) - 1)

rt_part(line) == SubSeq(line, HashPos(line) + 1, Len(line))

rt_num(line) == DigitsToInt(StripNonDigits(rt_part(line)))

(***************************************************************************)
(* Probe client and repeated-trial sampler: check_proxy_single and         *)
(* check_proxy_multiple.                                                   *)
(***************************************************************************)
\* JSON values of the reply's responseTime field
NoneValue == [t |-> "none", n |-> 0, s |-> <<>>]

Num(n) == [t |-> "num", n |-> n, s |-> <<>>]

Str(s) == [t |-> "str", n |-> 0, s |-> s]

\* bool(v): None, 0 and '' are false
Truthy(v) ==
  CASE v.t = "none" -> FALSE
    [] v.t = "num" -> v.n # 0
    [] v.t = "str" -> Len(v.s) > 0

\* str(v)
PyStr(v) ==
  CASE v.t = "none" -> <<"N", "o", "n", "e">>
    [] v.t = "num" -> IntToStr(v.n)
    [] v.t = "str" -> v.s

\* what check_proxy_single returns: a timeout, a transport or format error,
\* or the service's reply with its success and responseTime fields
TimeoutResult == [kind |-> "timeout", success |-> "none", response_time |-> NoneValue]

ErrorResult == [kind |-> "error", success |-> "none", response_time |-> NoneValue]

Reply(success, response_time) ==
  [kind |-> "reply", success |-> success, response_time |-> response_time]

\* the values of the success field that count as success: True, 'true', 'True'
AcceptedSuccess == {"bool:True", "str:true", "str:True"}

\* value recorded for a response time that holds no digit
DefaultResponseTime == 1000

\* the sample one successful trial adds to response_times (none when the
\* responseTime field is false in the Python sense)
extract_response_time(response_time) ==
  IF ~Truthy(response_time) THEN <<>>
  ELSE LET digits == StripNonDigits(PyStr(response_time))
       IN IF Len(digits) = 0 THEN <<DefaultResponseTime>>
          ELSE <<DigitsToInt(digits)>>

RECURSIVE SumSeq(_)
SumSeq(q) == IF Len(q) = 0 THEN 0 ELSE q[1] + SumSeq(Tail(q))

MinSeq(q) == CHOOSE x \in {q[i] : i \in 1..Len(q)} : \A j \in 1..Len(q) : x <= q[j]

MaxSeq(q) == CHOOSE x \in {q[i] : i \in 1..Len(q)} : \A j \in 1..Len(q) : x >= q[j]

\* the mean rounded to the nearest integer instead
avg_response_time_rounded(response_times) ==
  (2 * SumSeq(response_times) + Len(response_times)) \div (2 * Len(response_times))

\* int(statistics.mean(response_times)): the mean, truncated
avg_response_time(response_times) == SumSeq(response_times) \div Len(response_times)

NoSummary ==
  [status |-> "none", trial |-> 0, response_times |-> <<>>,
   avg_response_time |-> 0, min_response_time |-> 0, max_response_time |-> 0]

\* {'timeout': True, 'error': '<trial>...'} and {'error': '<trial>...'}
Failure(status, trial) == [NoSummary EXCEPT !.status = status, !.trial = trial]

\* what check_proxy_multiple returns once every trial has succeeded
summary(response_times) ==
  IF Len(response_times) > 0
  THEN [status |-> "success", trial |-> 0, response_times |-> response_times,
        avg_response_time |-> avg_response_time(response_times),
        min_response_time |-> MinSeq(response_times),
        max_response_time |-> MaxSeq(response_times)]
  ELSE Failure("error", 0)

\* the state of one call of check_proxy_multiple: i trials done, the probes
\* issued so far, the samples collected, and the value returned (if any)
NewSampler == [i |-> 0, probes |-> <<>>, response_times |-> <<>>, result |-> NoSummary]

\* a loop that goes on to the next trial after a failed one
trial_step_no_return(smp, r, times) ==
  LET probes == Append(smp.probes, r)
      rts == IF r.kind = "reply" /\ r.success \in AcceptedSuccess
             THEN smp.response_times \o extract_response_time(r.response_time)
             ELSE smp.response_times
  IN [i |-> smp.i + 1, probes |-> probes, response_times |-> rts,
      result |-> IF smp.i + 1 = times THEN summary(rts) ELSE NoSummary]

\* one iteration of the loop of check_proxy_multiple: the probe returns r
trial_step(smp, r, times) ==
  LET probes == Append(smp.probes, r)
  IN IF r.kind = "timeout"
     THEN [smp EXCEPT !.probes = probes, !.result = Failure("timeout", smp.i + 1)]
     ELSE IF r.kind = "error" \/ r.success \notin AcceptedSuccess
     THEN [smp EXCEPT !.probes = probes, !.result = Failure("error", smp.i + 1)]
     ELSE LET rts == smp.response_times \o extract_response_time(r.response_time)
          IN [i |-> smp.i + 1, probes |-> probes, response_times |-> rts,
              result |-> IF smp.i + 1 = times THEN summary(rts) ELSE NoSummary]

returned(smp) == smp.result.status # "none"

(***************************************************************************)
(* Endpoint parsers: the first part of process_proxy_line, and             *)
(* parse_proxy_entry of check_domain.py.                                   *)
(***************************************************************************)
MinPort == 1

MaxPort == 65535

NoEndpoint == [ok |-> FALSE, host |-> <<>>, port |-> 0, proxy |-> <<>>]

AllDigits(s) == Len(s) > 0 /\ \A i \in 1..Len(s) : IsDigit(s[i])

\* a line parser without the range check on the port number
parse_line_no_range(raw) ==
  LET line == Strip(raw)
      parts == Split(line)
  IN IF Len(line) = 0 \/ line[1] = "#" THEN NoEndpoint
     ELSE IF Len(parts) < 2 THEN NoEndpoint
     ELSE IF ~AllDigits(parts[2]) THEN NoEndpoint
     ELSE [ok |-> TRUE, host |-> parts[1], port |-> DigitsToInt(parts[2]),
           proxy |-> parts[1] \o <<":">> \o parts[2]]

\* a line parser that gives a line with an unusable port the port 443
parse_line_default_port(raw) ==
  LET line == Strip(raw)
      parts == Split(line)
      usable == /\ AllDigits(parts[2])
                /\ DigitsToInt(parts[2]) >= MinPort
                /\ DigitsToInt(parts[2]) <= MaxPort
  IN IF Len(line) = 0 \/ line[1] = "#" THEN NoEndpoint
     ELSE IF Len(parts) < 2 THEN NoEndpoint
     ELSE IF usable
     THEN [ok |-> TRUE, host |-> parts[1], port |-> DigitsToInt(parts[2]),
           proxy |-> parts[1] \o <<":">> \o parts[2]]
     ELSE [ok |-> TRUE, host |-> parts[1], port |-> 443,
           proxy |-> parts[1] \o <<":", "4", "4", "3">>]

\* process_proxy_line up to the construction of the key: the endpoint of a
\* line, or none for a line that is skipped
parse_line(raw) ==
  LET line == Strip(raw)
      parts == Split(line)
  IN IF Len(line) = 0 \/ line[1] = "#" THEN NoEndpoint
     ELSE IF Len(parts) < 2 THEN NoEndpoint
     ELSE IF ~AllDigits(parts[2]) THEN NoEndpoint
     ELSE IF DigitsToInt(parts[2]) < MinPort \/ DigitsToInt(parts[2]) > MaxPort
     THEN NoEndpoint
     ELSE [ok |-> TRUE, host |-> parts[1], port |-> DigitsToInt(parts[2]),
           proxy |-> parts[1] \o <<":">> \o parts[2]]

(***************************************************************************)
(* Dispatcher: main and process_proxy_line of check_proxy.py.              *)
(***************************************************************************)
NoThread == 0

MainThread == -1

ZeroCounters == [total |-> 0, success |-> 0, failed |-> 0, timeout |-> 0]

\* what process_proxy_line returns: None, or the result dictionary
NoReturn == [some |-> FALSE, proxy |-> <<>>, avg_response_time |-> 0,
             response_times |-> <<>>, min_response_time |-> 0,
             max_response_time |-> 0]

NewTask == [pc |-> "new", proxy |-> <<>>, smp |-> NewSampler, ret |-> NoReturn]

\* print_result: the status it gives to a sampler result
print_result(result) ==
  CASE result.status = "timeout" -> "timeout"
    [] result.status = "error" -> "failed"
    [] result.status = "success" -> "success"
    [] OTHER -> "failed"

\* the worker threads that are running a task
Busy == {t \in DOMAIN task :
           task[t].pc \in {"probing", "sampled", "count_total", "count_status"}}

\* the endpoints whose sampler has started and not returned
InFlight == {t \in DOMAIN task : task[t].pc = "probing"}

\* every worker takes every request: no limit on the threads
worker_available_unbounded == TRUE

\* a pool that keeps one of its threads idle
worker_available_spare == Cardinality(Busy) + 1 < concurrency

\* ThreadPoolExecutor(max_workers=concurrency): a queued task starts only
\* when fewer than max_workers threads are running one
worker_available == Cardinality(Busy) < concurrency

\* main: executor.submit for the next line
Submit ==
  /\ main.pc = "submit"
  /\ main.n < Len(lines)
  /\ task' = [task EXCEPT ![main.n + 1].pc = "queued"]
  /\ main' = [main EXCEPT !.n = main.n + 1,
                          !.pc = IF main.n + 1 = Len(lines) THEN "collect" ELSE "submit"]
  /\ UNCHANGED <<lines, test_times, concurrency, counters, file_lock, collected,
                 success_proxies, ledgerVars, samplerVars, parseVars, scoreVars, selectVars, upsertVars>>

\* a worker thread takes the oldest queued task and runs process_proxy_line
\* up to the call of check_proxy_multiple; a skipped line returns None
Start(t) ==
  /\ task[t].pc = "queued"
  /\ \A u \in DOMAIN task : task[u].pc = "queued" => t <= u
  /\ worker_available
  /\ LET e == parse_line(lines[t])
     IN task' = [task EXCEPT ![t].pc = IF e.ok THEN "probing" ELSE "done",
                             ![t].proxy = e.proxy]
  /\ UNCHANGED <<lines, test_times, concurrency, counters, file_lock, main,
                 collected, success_proxies, ledgerVars, samplerVars, parseVars, scoreVars, selectVars, upsertVars>>

\* one trial of check_proxy_multiple in a worker: the probe returns r
Trial(t, r) ==
  /\ task[t].pc = "probing"
  /\ LET smp == trial_step(task[t].smp, r, test_times)
     IN task' = [task EXCEPT ![t].smp = smp,
                             ![t].pc = IF returned(smp) THEN "sampled" ELSE "probing"]
  /\ UNCHANGED <<lines, test_times, concurrency, counters, file_lock, main,
                 collected, success_proxies, ledgerVars, samplerVars, parseVars, scoreVars, selectVars, upsertVars>>

\* with file_lock: (worker)
Acquire(t) ==
  /\ task[t].pc = "sampled"
  /\ file_lock = NoThread
  /\ file_lock' = t
  /\ task' = [task EXCEPT ![t].pc = "count_total"]
  /\ UNCHANGED <<lines, test_times, concurrency, counters, main, collected,
                 success_proxies, ledgerVars, samplerVars, parseVars, scoreVars, selectVars, upsertVars>>

\* counters['total'] += 1
CountTotal(t) ==
  /\ task[t].pc = "count_total"
  /\ counters' = [counters EXCEPT !.total = counters.total + 1]
  /\ task' = [task EXCEPT ![t].pc = "count_status"]
  /\ UNCHANGED <<lines, test_times, concurrency, file_lock, main, collected,
                 success_proxies, ledgerVars, samplerVars, parseVars, scoreVars, selectVars, upsertVars>>

\* print_result, the counter of its status, and the return that leaves the
\* with block
CountStatus(t) ==
  /\ task[t].pc = "count_status"
  /\ LET status == print_result(task[t].smp.result)
         res == task[t].smp.result
     IN /\ counters' =
             CASE status = "success" ->
                    [counters EXCEPT !.success = counters.success + 1]
               [] status = "timeout" ->
                    [counters EXCEPT !.timeout = counters.timeout + 1,
                                     !.failed = counters.failed + 1]
               [] OTHER -> [counters EXCEPT !.failed = counters.failed + 1]
        /\ task' = [task EXCEPT
             ![t].pc = "done",
             ![t].ret = IF status = "success"
                        THEN [some |-> TRUE, proxy |-> task[t].proxy,
                              avg_response_time |-> res.avg_response_time,
                              response_times |-> res.response_times,
                              min_response_time |-> res.min_response_time,
                              max_response_time |-> res.max_response_time]
                        ELSE NoReturn]
  /\ file_lock' = NoThread
  /\ UNCHANGED <<lines, test_times, concurrency, main, collected,
                 success_proxies, ledgerVars, samplerVars, parseVars, scoreVars, selectVars, upsertVars>>

\* main: as_completed yields the future of a finished task; a success is
\* appended to success_proxies and saved when its mean is not zero;
\* future.result() raises again what the task raised, which leaves the loop
Collect(t) ==
  /\ main.pc = "collect"
  /\ task[t].pc \in {"done", "raised"}
  /\ t \notin collected
  /\ collected' = collected \cup {t}
  /\ IF task[t].pc = "raised"
     THEN /\ main' = [main EXCEPT !.pc = "unwinding"]
          /\ UNCHANGED success_proxies
     ELSE IF task[t].ret.some
     THEN /\ success_proxies' = Append(success_proxies, task[t].ret)
          /\ main' = IF task[t].ret.avg_response_time # 0
                     THEN [main EXCEPT !.pc = "save", !.cur = task[t].ret]
                     ELSE main
     ELSE UNCHANGED <<success_proxies, main, selectVars, upsertVars>>
  /\ UNCHANGED <<lines, test_times, concurrency, task, counters, file_lock,
                 ledgerVars, samplerVars, parseVars, scoreVars, selectVars, upsertVars>>

\* main, in save_success_proxy: with file_lock:
SaveLock ==
  /\ main.pc = "save"
  /\ file_lock = NoThread
  /\ file_lock' = MainThread
  /\ main' = [main EXCEPT !.pc = "saving"]
  /\ UNCHANGED <<lines, test_times, concurrency, task, counters, collected,
                 success_proxies, ledgerVars, samplerVars, parseVars, scoreVars, selectVars, upsertVars>>

\* main, in save_success_proxy: the ledger read, updated, sorted and written
SaveWrite ==
  /\ main.pc = "saving"
  /\ success_file' = save_success_proxy(success_file, main.cur.proxy,
                                        main.cur.avg_response_time, TRUE)
  /\ last_upsert' = [proxy |-> main.cur.proxy,
                     avg |-> main.cur.avg_response_time, called |-> TRUE]
  /\ before_upsert' = success_file
  /\ repeated' = (last_upsert = last_upsert')
  /\ file_lock' = NoThread
  /\ main' = [main EXCEPT !.pc = IF main.final THEN "rank" ELSE "collect"]
  /\ UNCHANGED <<lines, test_times, concurrency, task, counters, collected,
                 success_proxies, samplerVars, parseVars, scoreVars, selectVars, upsertVars>>

\* sorted(success_proxies, key=get_avg_rt)[0]: the first of the results
\* with the least mean
test_proxy ==
  LET least == {i \in 1..Len(success_proxies) :
                  \A j \in 1..Len(success_proxies) :
                    success_proxies[i].avg_response_time
                      <= success_proxies[j].avg_response_time}
  IN success_proxies[CHOOSE i \in least : \A j \in least : i <= j]

\* main: every future yielded; the totals are printed, and with at least one
\* success the best result is saved once more
Summarise ==
  /\ main.pc = "collect"
  /\ collected = DOMAIN task
  /\ main' = IF Len(success_proxies) > 0
             THEN [main EXCEPT !.pc = "save", !.cur = test_proxy, !.final = TRUE]
             ELSE [main EXCEPT !.pc = "done"]
  /\ UNCHANGED <<lines, test_times, concurrency, task, counters, file_lock,
                 collected, success_proxies, ledgerVars, samplerVars, parseVars, scoreVars, selectVars, upsertVars>>

RunIdle ==
  /\ lines = <<>>
  /\ test_times = 0
  /\ concurrency = 0
  /\ task = <<>>
  /\ counters = ZeroCounters
  /\ file_lock = NoThread
  /\ main = [pc |-> "idle", n |-> 0, cur |-> NoReturn, final |-> FALSE]
  /\ collected = {}
  /\ success_proxies = <<>>

\* s.split(c): the parts of s between the occurrences of character c
RECURSIVE SplitOn(_, _)
SplitOn(s, c) ==
  IF \A i \in 1..Len(s) : s[i] # c THEN <<s>>
  ELSE LET n == CHOOSE i \in 1..Len(s) : s[i] = c /\ \A j \in 1..(i - 1) : s[j] # c
       IN <<SubSeq(s, 1, n - 1)>> \o SplitOn(SubSeq(s, n + 1, Len(s)), c)

HasChar(s, c) == \E i \in 1..Len(s) : s[i] = c

CountChar(s, c) == Cardinality({i \in 1..Len(s) : s[i] = c})

\* int(s): blanks around the number and a sign are accepted; anything else
\* raises ValueError
PyInt(s) ==
  LET t == Strip(s)
      signed == Len(t) > 0 /\ t[1] \in {"+", "-"}
      body == IF signed THEN Tail(t) ELSE t
  IN IF AllDigits(body)
     THEN [ok |-> TRUE,
           n |-> IF signed /\ t[1] = "-" THEN 0 - DigitsToInt(body) ELSE DigitsToInt(body)]
     ELSE [ok |-> FALSE, n |-> 0]

\* port used by parse_proxy_entry when the entry gives none it can use
DefaultPort == 443

\* parse_proxy_entry of check_domain.py: (host, port), or (None, None)
parse_proxy_entry(raw) ==
  LET entry == Strip(raw)
      parts == SplitOn(entry, ":")
      port == PyInt(parts[2])
  IN IF Len(entry) = 0 THEN NoEndpoint
     ELSE IF HasChar(entry, ":")
     THEN [ok |-> TRUE, host |-> parts[1],
           port |-> IF port.ok /\ port.n >= MinPort /\ port.n <= MaxPort
                    THEN port.n ELSE DefaultPort,
           proxy |-> <<>>]
     ELSE [ok |-> TRUE, host |-> entry, port |-> DefaultPort, proxy |-> <<>>]

NoExtract == [ok |-> FALSE, ip |-> <<>>, port |-> <<>>]

http_prefix == <<"h", "t", "t", "p", ":", "/", "/">>

https_prefix == <<"h", "t", "t", "p", "s", ":", "/", "/">>

\* the TXT branch of iptest.py: the "ip port" line written to the proxy file
\* for one input line, or none
extract_txt_line(raw) ==
  LET line == Strip(raw)
      parts == IF HasChar(line, " ") THEN Split(line)
               ELSE IF HasChar(line, ":") THEN SplitOn(line, ":")
               ELSE <<>>
      ip0 == IF Len(parts) >= 2 THEN parts[1] ELSE <<>>
      port == IF Len(parts) >= 2 THEN parts[2] ELSE <<>>
      ip == IF StartsWith(ip0, http_prefix) THEN SubSeq(ip0, 8, Len(ip0))
            ELSE IF StartsWith(ip0, https_prefix) THEN SubSeq(ip0, 9, Len(ip0))
            ELSE ip0
  IN IF Len(line) = 0 \/ line[1] = "#" THEN NoExtract
     ELSE IF Len(ip) > 0 /\ Len(port) > 0 /\ CountChar(ip, ".") = 3
     THEN [ok |-> TRUE, ip |-> ip, port |-> port]
     ELSE NoExtract

NoParse == [by |-> "none", lead |-> <<>>, host |-> <<>>, sep |-> <<>>,
            tok |-> [text |-> <<>>, valid |-> FALSE, value |-> 0],
            endpoint |-> NoEndpoint, extract |-> NoExtract]

ParseIdle == parsed = NoParse

(***************************************************************************)
(* Composite scorer: parse_download_speed_for_display and calculate_score. *)
(* Scores and speeds are exact decimal fixed-point numbers, Unit to the     *)
(* point, which holds every value computed from a throughput text with at  *)
(* most one decimal; the score returned is counted in hundredths.          *)
(***************************************************************************)
Unit == 100000

RECURSIVE Pow10(_)
Pow10(n) == IF n = 0 THEN 1 ELSE 10 * Pow10(n - 1)

\* s.lower(), for the letters of the unit names
LowerChar(c) ==
  CASE c = "K" -> "k" [] c = "M" -> "m" [] c = "B" -> "b"
    [] c = "S" -> "s" [] c = "P" -> "p" [] OTHER -> c

Lower(s) == [i \in 1..Len(s) |-> LowerChar(s[i])]

IsNumChar(c) == IsDigit(c) \/ c = "."

\* length of the longest run of digits and dots starting at position i of s
RECURSIVE NumRun(_, _)
NumRun(s, i) ==
  IF i > Len(s) \/ ~IsNumChar(s[i]) THEN 0 ELSE 1 + NumRun(s, i + 1)

\* re.search(r'([\d.]+)', s): the first run of digits and dots, or none
first_number(s) ==
  LET hits == {i \in 1..Len(s) : IsNumChar(s[i])}
  IN IF hits = {} THEN [found |-> FALSE, text |-> <<>>]
     ELSE LET i == CHOOSE h \in hits : \A g \in hits : h <= g
          IN [found |-> TRUE, text |-> SubSeq(s, i, i + NumRun(s, i) - 1)]

\* a number parser that stops at the second dot instead of failing
float_value_prefix(text) ==
  LET dots == {i \in 1..Len(text) : text[i] = "."}
      cut == IF Cardinality(dots) >= 2
             THEN (CHOOSE i \in dots : Cardinality({j \in dots : j < i}) = 1) - 1
             ELSE Len(text)
      t == SubSeq(text, 1, cut)
      d == {i \in 1..Len(t) : t[i] = "."}
      digits == StripNonDigits(t)
  IN IF Len(digits) = 0 THEN [ok |-> FALSE, micro |-> 0]
     ELSE [ok |-> TRUE,
           micro |-> (DigitsToInt(digits) * Unit)
                       \div Pow10(IF d = {} THEN 0 ELSE Len(t) - (CHOOSE i \in d : TRUE))]

\* float(text) for a run of digits and dots: a ValueError unless it holds a
\* digit and at most one dot
float_value(text) ==
  LET dots == {i \in 1..Len(text) : text[i] = "."}
      digits == StripNonDigits(text)
      decimals == IF dots = {} THEN 0 ELSE Len(text) - (CHOOSE i \in dots : TRUE)
  IN IF Len(digits) = 0 \/ Cardinality(dots) > 1 THEN [ok |-> FALSE, micro |-> 0]
     ELSE [ok |-> TRUE, micro |-> (DigitsToInt(digits) * Unit) \div Pow10(decimals)]

kb_s == <<"k", "b", "/", "s">>

kbps == <<"k", "b", "p", "s">>

mb_s == <<"m", "b", "/", "s">>

mbps == <<"m", "b", "p", "s">>

\* parse_download_speed_for_display: the speed value used for scoring
parse_download_speed_for_display(speed_str) ==
  LET m == first_number(speed_str)
      f == float_value(m.text)
      low == Lower(speed_str)
  IN IF Len(speed_str) = 0 THEN 0
     ELSE IF ~m.found THEN 0
     ELSE IF ~f.ok THEN 0
     ELSE IF Contains(low, kb_s) \/ Contains(low, kbps) THEN f.micro \div 10
     ELSE IF Contains(low, mb_s) \/ Contains(low, mbps) THEN f.micro * 100
     ELSE f.micro \div 10

LatencyCap == 2000

SpeedCap == 5000

\* the latency score computed with an integer division
latency_score_floor_division(latency_ms) ==
  IF latency_ms <= 0 THEN 100 * Unit
  ELSE IF latency_ms >= LatencyCap THEN 0
  ELSE 100 * (Unit - (latency_ms \div LatencyCap) * Unit)

\* calculate_score: latency_score
latency_score(latency_ms) ==
  IF latency_ms <= 0 THEN 100 * Unit
  ELSE IF latency_ms >= LatencyCap THEN 0
  ELSE 100 * (Unit - (latency_ms * Unit) \div LatencyCap)

\* the speed score without its upper clamp
speed_score_unclamped(speed_num) ==
  IF speed_num <= 0 THEN 0
  ELSE speed_num \div (SpeedCap \div 100)

\* calculate_score: speed_score
speed_score(speed_num) ==
  IF speed_num <= 0 THEN 0
  ELSE IF speed_num >= SpeedCap * Unit THEN 100 * Unit
  ELSE speed_num \div (SpeedCap \div 100)

\* round(x, 2), in hundredths: to the nearest, ties to even
round2(x) ==
  LET q == x \div (Unit \div 100)
      r == x % (Unit \div 100)
      half == Unit \div 200
  IN IF r > half \/ (r = half /\ q % 2 = 1) THEN q + 1 ELSE q

\* calculate_score with its default weights 0.6 and 0.4: the values it
\* computes, and the score it returns
calculate_score(latency_ms, download_speed_str) ==
  LET ls == latency_score(latency_ms)
      sn == parse_download_speed_for_display(download_speed_str)
      ss == speed_score(sn)
  IN [latency_score |-> ls, speed_num |-> sn, speed_score |-> ss,
      score |-> round2((ls * 6) \div 10 + (ss * 4) \div 10)]

NoScore == [called |-> FALSE, latency_ms |-> 0, download_speed_str |-> <<>>,
            latency_score |-> 0, speed_num |-> 0, speed_score |-> 0, score |-> 0]

ScoreIdle == scored = NoScore

(***************************************************************************)
(* Ranking: select_top_proxies.  proxy_results is a dictionary, modelled as *)
(* the sequence of its items in insertion order; download_speeds is a      *)
(* dictionary, modelled as a function on its keys.                         *)
(***************************************************************************)
\* the top_n that main passes, and the default of select_top_proxies
TopN == 10

\* one element of scored_proxies
score_entry(item, download_speeds) ==
  LET speed_str == IF item.proxy \in DOMAIN download_speeds
                   THEN download_speeds[item.proxy] ELSE <<>>
      c == calculate_score(item.avg_response_time, speed_str)
  IN [proxy |-> item.proxy, latency |-> item.avg_response_time,
      speed_str |-> speed_str, speed_num |-> c.speed_num, score |-> c.score]

\* sort(key=score, reverse=True) is stable: an element goes after every
\* element whose score is not less than its own
RECURSIVE InsertByScore(_, _)
InsertByScore(sorted, x) ==
  IF Len(sorted) = 0 THEN <<x>>
  ELSE IF sorted[Len(sorted)].score >= x.score THEN Append(sorted, x)
  ELSE Append(InsertByScore(SubSeq(sorted, 1, Len(sorted) - 1), x),
              sorted[Len(sorted)])

\* the entries left in the order of the dictionary
sort_by_score_skipped(entries) == entries

RECURSIVE sort_by_score(_)
sort_by_score(entries) ==
  IF Len(entries) = 0 THEN <<>>
  ELSE InsertByScore(sort_by_score(SubSeq(entries, 1, Len(entries) - 1)),
                     entries[Len(entries)])

\* scored_proxies[:top_n], for top_n >= 0
Take(q, n) == SubSeq(q, 1, IF n < Len(q) THEN n ELSE Len(q))

\* select_top_proxies(proxy_results, download_speeds, top_n)
select_top_proxies(proxy_results, download_speeds, top_n) ==
  Take(sort_by_score([i \in 1..Len(proxy_results) |->
                        score_entry(proxy_results[i], download_speeds)]),
       top_n)

NoSelect == [called |-> FALSE, proxy_results |-> <<>>, download_speeds |-> <<>>,
             top_n |-> 0, top_proxies |-> <<>>]

SelectIdle == selected = NoSelect

(***************************************************************************)
(* The store driven on its own: any sequence of upserts, starting from an  *)
(* absent or an empty ledger file.                                         *)
(***************************************************************************)
\* endpoint keys "host:port"; two of them share a prefix
Keys == { <<"h", ":", "8">>, <<"h", ":", "8", "0">>, <<"g", ":", "8">> }

\* mean latencies; 7 and 10 order differently as numbers and as text
Latencies == {0, 7, 10, 2000}

NoUpsert == [proxy |-> <<>>, avg |-> 0, called |-> FALSE]

AbsentFile == [exists |-> FALSE, lines |-> <<>>]

EmptyFile == [exists |-> TRUE, lines |-> <<>>]

LedgerIdle ==
  /\ success_file = AbsentFile
  /\ last_upsert = NoUpsert
  /\ before_upsert = AbsentFile
  /\ repeated = FALSE

SamplerIdle == trials = 0 /\ sample = NewSampler

InitLedger ==
  /\ success_file \in {AbsentFile, EmptyFile}
  /\ last_upsert = NoUpsert
  /\ before_upsert = success_file
  /\ repeated = FALSE
  /\ SamplerIdle
  /\ RunIdle
  /\ ParseIdle
  /\ ScoreIdle
  /\ SelectIdle
  /\ UpserterIdle

Upsert(proxy, avg) ==
  /\ success_file' = save_success_proxy(success_file, proxy, avg, TRUE)
  /\ last_upsert' = [proxy |-> proxy, avg |-> avg, called |-> TRUE]
  /\ before_upsert' = success_file
  /\ repeated' = (last_upsert = [proxy |-> proxy, avg |-> avg, called |-> TRUE])
  /\ UNCHANGED <<samplerVars, runVars, parseVars, scoreVars, selectVars, upsertVars>>

NextLedger == \E proxy \in Keys, avg \in Latencies : Upsert(proxy, avg)

SpecLedger == InitLedger /\ [][NextLedger]_vars

(***************************************************************************)
(* Claims about the store.                                                 *)
(***************************************************************************)
LinesOf(proxy) ==
  {i \in 1..Len(success_file.lines) : proxy_part(success_file.lines[i]) = proxy}

\* C1: after any sequence of upserts from an absent or empty ledger, the
\* latencies read back from the ledger lines are in non-decreasing order.
C1_LedgerSorted ==
  \A i \in 1..(Len(success_file.lines) - 1) :
    rt_num(success_file.lines[i]) <= rt_num(success_file.lines[i + 1])

\* C1 witness: a ledger of three lines with different latencies, whose last
\* upsert gave an existing key a latency that moved its line.
C1_Witness ==
  /\ Len(success_file.lines) = 3
  /\ rt_num(success_file.lines[1]) < rt_num(success_file.lines[3])
  /\ last_upsert.called
  /\ Len(before_upsert.lines) = 3
  /\ proxy_part(before_upsert.lines[1]) = last_upsert.proxy
  /\ proxy_part(success_file.lines[3]) = last_upsert.proxy

\* C2: an upsert that repeats the key and latency of the upsert just before
\* it leaves the ledger as the first one left it, with one line for the key.
C2_Idempotent ==
  repeated =>
    /\ success_file = before_upsert
    /\ Cardinality(LinesOf(last_upsert.proxy)) = 1

\* C2 witness: a repeated upsert into a ledger that holds other keys, one of
\* them with the same latency.
C2_Witness ==
  /\ repeated
  /\ Len(success_file.lines) = 3
  /\ \E i \in 1..3 :
       /\ proxy_part(success_file.lines[i]) # last_upsert.proxy
       /\ rt_num(success_file.lines[i]) = last_upsert.avg

\* C3: no two ledger lines carry the same endpoint key.
C3_UniqueKeys ==
  \A i, j \in 1..Len(success_file.lines) :
    proxy_part(success_file.lines[i]) = proxy_part(success_file.lines[j]) => i = j

\* C3 witness: a key upserted again with a different latency, next to the key
\* it is a prefix of.
C3_Witness ==
  /\ last_upsert.called
  /\ \E i \in 1..Len(before_upsert.lines) :
       /\ proxy_part(before_upsert.lines[i]) = last_upsert.proxy
       /\ rt_num(before_upsert.lines[i]) # last_upsert.avg
  /\ LinesOf(<<"h", ":", "8">>) # {}
  /\ LinesOf(<<"h", ":", "8", "0">>) # {}
  /\ last_upsert.proxy = <<"h", ":", "8">>


\* the latencies the ledger f holds for the key k
Stored(f, k) ==
  {rt_num(f.lines[i]) : i \in {j \in 1..Len(f.lines) : proxy_part(f.lines[j]) = k}}

\* C21: after an upsert the ledger holds, for the key upserted, the latency
\* of that upsert and no other, and for every other key what it held before
\* the upsert.
C21_LastWriteWins ==
  last_upsert.called =>
    /\ Stored(success_file, last_upsert.proxy) = {last_upsert.avg}
    /\ \A k \in Keys \ {last_upsert.proxy} :
         Stored(success_file, k) = Stored(before_upsert, k)

\* C21 witness: an upsert of h:8 replaced the latency the ledger held for
\* it, while the ledger also held h:80, of which h:8 is a prefix, and g:8.
C21_Witness ==
  /\ last_upsert.called
  /\ last_upsert.proxy = <<"h", ":", "8">>
  /\ Stored(before_upsert, last_upsert.proxy) # {}
  /\ Stored(before_upsert, last_upsert.proxy) # {last_upsert.avg}
  /\ Stored(success_file, <<"h", ":", "8", "0">>) # {}
  /\ Stored(success_file, <<"g", ":", "8">>) # {}
  /\ Stored(success_file, <<"g", ":", "8">>) # {last_upsert.avg}

(***************************************************************************)
(* The store when the read of the ledger file can fail: the open or the    *)
(* readlines at 513-514 raises, the bare except at 515 passes, and the     *)
(* upsert goes on with no existing lines.                                  *)
(***************************************************************************)
UpsertUnread(proxy, avg) ==
  /\ success_file.exists
  /\ success_file' = save_success_proxy(success_file, proxy, avg, FALSE)
  /\ last_upsert' = [proxy |-> proxy, avg |-> avg, called |-> TRUE]
  /\ before_upsert' = success_file
  /\ repeated' = (last_upsert = [proxy |-> proxy, avg |-> avg, called |-> TRUE])
  /\ UNCHANGED <<samplerVars, runVars, parseVars, scoreVars, selectVars, upsertVars>>

NextLedgerFault ==
  \E proxy \in Keys, avg \in Latencies :
    \/ Upsert(proxy, avg)
    \/ UpsertUnread(proxy, avg)

SpecLedgerFault == InitLedger /\ [][NextLedgerFault]_vars

\* C22: every key the ledger held before an upsert is a key it holds after
\* the upsert, whether or not the read of the ledger succeeded.
C22_NoDeletion ==
  last_upsert.called =>
    \A k \in Keys : Stored(before_upsert, k) # {} => Stored(success_file, k) # {}

(***************************************************************************)
(* The sampler driven on its own: one call of check_proxy_multiple, each   *)
(* probe returning any of the results below.                               *)
(***************************************************************************)
MaxTrials == 3

\* responseTime fields the service may send
ResponseTimes ==
  { Num(80), Num(100), Num(120), Str(<<"7", "m", "s">>),
    Num(0), NoneValue, Str(<<>>), Str(<<"m", "s">>) }

RejectedSuccess == {"bool:False", "str:false", "none"}

ProbeResults ==
  {TimeoutResult, ErrorResult}
    \cup {Reply(ok, NoneValue) : ok \in RejectedSuccess}
    \cup {Reply("bool:True", rt) : rt \in ResponseTimes}
    \cup {Reply(ok, Num(100)) : ok \in AcceptedSuccess}

InitSampler ==
  /\ trials \in 1..MaxTrials
  /\ sample = NewSampler
  /\ LedgerIdle
  /\ RunIdle
  /\ ParseIdle
  /\ ScoreIdle
  /\ SelectIdle
  /\ UpserterIdle

\* check_proxy_single returns r to the running loop
Probe(r) ==
  /\ ~returned(sample)
  /\ sample' = trial_step(sample, r, trials)
  /\ UNCHANGED <<trials, ledgerVars, runVars, parseVars, scoreVars, selectVars, upsertVars>>

NextSampler == \E r \in ProbeResults : Probe(r)

SpecSampler == InitSampler /\ [][NextSampler]_vars

(***************************************************************************)
(* Claims about the sampler.                                               *)
(***************************************************************************)
IsSuccess(r) == r.kind = "reply" /\ r.success \in AcceptedSuccess

\* C4: a trial that does not succeed is the last probe issued, and the call
\* has returned a failure that names that trial.
C4_ShortCircuit ==
  \A k \in 1..Len(sample.probes) :
    ~IsSuccess(sample.probes[k]) =>
      /\ k = Len(sample.probes)
      /\ sample.result.status \in {"timeout", "error"}
      /\ sample.result.trial = k

\* C4 witness: three trials asked for, the second fails, two probes issued.
C4_Witness ==
  /\ trials = 3
  /\ Len(sample.probes) = 2
  /\ IsSuccess(sample.probes[1])
  /\ ~IsSuccess(sample.probes[2])
  /\ returned(sample)

\* C11: once the call has returned, its summary is a success if and only if
\* every one of the trials asked for was issued and returned a success; a
\* success summary carries its latencies.
C11_AllOrNothing ==
  returned(sample) =>
    /\ sample.result.status = "success" <=>
         /\ Len(sample.probes) = trials
         /\ \A k \in 1..Len(sample.probes) : IsSuccess(sample.probes[k])
    /\ sample.result.status = "success" => Len(sample.result.response_times) > 0

\* round(x) of Python for x = total / n: to the nearest integer, ties to even
RoundHalfEven(total, n) ==
  LET q == total \div n
      r == total % n
  IN IF 2 * r > n \/ (2 * r = n /\ q % 2 = 1) THEN q + 1 ELSE q

NoLatency(v) == ~Truthy(v) \/ Len(StripNonDigits(PyStr(v))) = 0

\* the trials of the call so far whose reply reports success
SuccessTrials == {k \in 1..Len(sample.probes) : IsSuccess(sample.probes[k])}

\* C25: every trial whose reply reports success adds one sample, and a
\* trial whose reply holds no latency adds the default 1000 and is not the
\* trial a failure names.
C25_ExtractionFallback ==
  /\ Len(sample.response_times) = Cardinality(SuccessTrials)
  /\ \A k \in SuccessTrials :
       NoLatency(sample.probes[k].response_time) =>
         /\ sample.response_times[k] = DefaultResponseTime
         /\ sample.result.status \in {"none", "success"} \/ sample.result.trial # k
  /\ returned(sample) /\ SuccessTrials = 1..trials => sample.result.status = "success"

\* C28: a call that returns a success has one sample for each of its
\* test_times trials, in trial order, and its mean, least and greatest are
\* those of all the samples.
C28_SampleCount ==
  sample.result.status = "success" =>
    /\ Len(sample.result.response_times) = trials
    /\ \A k \in 1..Len(sample.result.response_times) :
         <<sample.result.response_times[k]>>
           = extract_response_time(sample.probes[k].response_time)
    /\ sample.result.avg_response_time
         = SumSeq(sample.result.response_times) \div trials
    /\ sample.result.min_response_time = MinSeq(sample.result.response_times)
    /\ sample.result.max_response_time = MaxSeq(sample.result.response_times)

(***************************************************************************)
(* A whole run of check_proxy.py over an input file.                       *)
(***************************************************************************)
MaxLines == 2

MaxWorkers == 2

MaxRunTrials == 1

ValidLines == { <<"h", " ", "8">>, <<"g", " ", "8", "0">> }

BadPortLines == { <<"h", " ", "x">> }

CommentLines == { <<"#", "h", " ", "8">> }

BlankLines == { <<>> }

RunLines == ValidLines \cup BadPortLines \cup CommentLines \cup BlankLines

\* what a probe may return during a run
RunResults ==
  { TimeoutResult, Reply("bool:False", NoneValue),
    Reply("bool:True", Str(<<"0", "m", "s">>)), Reply("bool:True", Num(10)) }

SeqsUpTo(S, n) == UNION {[1..k -> S] : k \in 0..n}

\* {p['proxy']: p['avg_response_time'] for p in success_proxies}: a key
\* stands where it first came, with the value that came last
success_proxies_dict(sp) ==
  LET firsts == {i \in 1..Len(sp) : \A j \in 1..(i - 1) : sp[j].proxy # sp[i].proxy}
      nth(n) == CHOOSE i \in firsts : Cardinality({j \in firsts : j < i}) = n - 1
      last(i) == CHOOSE j \in 1..Len(sp) :
                   /\ sp[j].proxy = sp[i].proxy
                   /\ \A k \in (j + 1)..Len(sp) : sp[k].proxy # sp[i].proxy
  IN [n \in 1..Cardinality(firsts) |->
        [proxy |-> sp[nth(n)].proxy,
         avg_response_time |-> sp[last(nth(n))].avg_response_time]]

\* the throughput tables read_download_speeds may return during a run: none
\* found, or one with a record for h:8
RunSpeeds ==
  { <<>>, [k \in { <<"h", ":", "8">> } |-> <<"6", "0", " ", "M", "B", "/", "s">>] }

\* main: the throughput table is read and the top ten results are selected
Rank(download_speeds) ==
  /\ main.pc = "rank"
  /\ LET proxy_results == success_proxies_dict(success_proxies)
     IN selected' = [called |-> TRUE, proxy_results |-> proxy_results,
                     download_speeds |-> download_speeds, top_n |-> TopN,
                     top_proxies |-> select_top_proxies(proxy_results,
                                                        download_speeds, TopN)]
  /\ main' = [main EXCEPT !.pc = "done"]
  /\ UNCHANGED <<lines, test_times, concurrency, task, counters, file_lock,
                 collected, success_proxies, ledgerVars, samplerVars, parseVars,
                 scoreVars, upsertVars>>

Init ==
  /\ lines \in SeqsUpTo(RunLines, MaxLines)
  /\ test_times \in 1..MaxRunTrials
  /\ concurrency \in 1..MaxWorkers
  /\ task = [t \in 1..Len(lines) |-> NewTask]
  /\ counters = ZeroCounters
  /\ file_lock = NoThread
  /\ main = [pc |-> IF Len(lines) = 0 THEN "collect" ELSE "submit", n |-> 0,
             cur |-> NoReturn, final |-> FALSE]
  /\ collected = {}
  /\ success_proxies = <<>>
  /\ LedgerIdle
  /\ SamplerIdle
  /\ ParseIdle
  /\ ScoreIdle
  /\ SelectIdle
  /\ UpserterIdle

Next ==
  \/ Submit
  \/ \E t \in DOMAIN task : Start(t)
  \/ \E t \in DOMAIN task, r \in RunResults : Trial(t, r)
  \/ \E t \in DOMAIN task : Acquire(t)
  \/ \E t \in DOMAIN task : CountTotal(t)
  \/ \E t \in DOMAIN task : CountStatus(t)
  \/ \E t \in DOMAIN task : Collect(t)
  \/ SaveLock
  \/ SaveWrite
  \/ Summarise
  \/ \E download_speeds \in RunSpeeds : Rank(download_speeds)

Spec == Init /\ [][Next]_vars

\* the run under fair scheduling: a thread that can take a step is not
\* held back for ever
LiveSpec == Spec /\ WF_vars(Next)

(***************************************************************************)
(* A run in which an exception can escape process_proxy_line.  Two calls   *)
(* of the statistics module are outside every try block: statistics.mean   *)
(* in check_proxy_multiple and statistics.stdev in print_result; each      *)
(* raises OverflowError on two or more samples when one is too large for a *)
(* float (a responseTime text of some hundred digits).  The latencies of   *)
(* the model stand for any integers, so whether the call raises is a       *)
(* choice.                                                                 *)
(***************************************************************************)
\* samples needed for the mean to be a fraction, and for stdev to be called
MinSpread == 2

\* check_proxy_multiple raises after its last trial, in statistics.mean
RaiseInSampler(t, r) ==
  /\ task[t].pc = "probing"
  /\ task[t].smp.i + 1 = test_times
  /\ r.kind = "reply" /\ r.success \in AcceptedSuccess
  /\ LET rts == task[t].smp.response_times \o extract_response_time(r.response_time)
     IN /\ Len(rts) >= MinSpread
        /\ task' = [task EXCEPT ![t].pc = "raised",
                                ![t].smp = [i |-> task[t].smp.i + 1,
                                            probes |-> Append(task[t].smp.probes, r),
                                            response_times |-> rts,
                                            result |-> NoSummary]]
  /\ UNCHANGED <<lines, test_times, concurrency, counters, file_lock, main,
                 collected, success_proxies, ledgerVars, samplerVars, parseVars,
                 scoreVars, selectVars, upsertVars>>

\* print_result raises in statistics.stdev: the with block releases the
\* lock, counters['total'] has been incremented and no other counter is
RaiseInPrint(t) ==
  /\ task[t].pc = "count_status"
  /\ task[t].smp.result.status = "success"
  /\ Len(task[t].smp.result.response_times) >= MinSpread
  /\ task' = [task EXCEPT ![t].pc = "raised"]
  /\ file_lock' = NoThread
  /\ UNCHANGED <<lines, test_times, concurrency, counters, main, collected,
                 success_proxies, ledgerVars, samplerVars, parseVars, scoreVars,
                 selectVars, upsertVars>>

\* main: the exception leaves the with block of the executor once every
\* submitted task has ended, and then main: the run ends with a traceback
Unwind ==
  /\ main.pc = "unwinding"
  /\ \A t \in DOMAIN task : task[t].pc \in {"done", "raised"}
  /\ main' = [main EXCEPT !.pc = "aborted"]
  /\ UNCHANGED <<lines, test_times, concurrency, task, counters, file_lock,
                 collected, success_proxies, ledgerVars, samplerVars, parseVars,
                 scoreVars, selectVars, upsertVars>>

FaultResults == { Reply("bool:False", NoneValue), Reply("bool:True", Num(10)) }

InitFault ==
  /\ lines \in SeqsUpTo(ValidLines, MaxLines)
  /\ test_times \in MinSpread..(MaxRunTrials + 1)
  /\ concurrency \in 1..MaxWorkers
  /\ task = [t \in 1..Len(lines) |-> NewTask]
  /\ counters = ZeroCounters
  /\ file_lock = NoThread
  /\ main = [pc |-> IF Len(lines) = 0 THEN "collect" ELSE "submit", n |-> 0,
             cur |-> NoReturn, final |-> FALSE]
  /\ collected = {}
  /\ success_proxies = <<>>
  /\ LedgerIdle
  /\ SamplerIdle
  /\ ParseIdle
  /\ ScoreIdle
  /\ SelectIdle
  /\ UpserterIdle

NextFault ==
  \/ Submit
  \/ \E t \in DOMAIN task : Start(t)
  \/ \E t \in DOMAIN task, r \in FaultResults : Trial(t, r)
  \/ \E t \in DOMAIN task, r \in FaultResults : RaiseInSampler(t, r)
  \/ \E t \in DOMAIN task : Acquire(t)
  \/ \E t \in DOMAIN task : CountTotal(t)
  \/ \E t \in DOMAIN task : CountStatus(t)
  \/ \E t \in DOMAIN task : RaiseInPrint(t)
  \/ \E t \in DOMAIN task : Collect(t)
  \/ SaveLock
  \/ SaveWrite
  \/ Summarise
  \/ \E download_speeds \in RunSpeeds : Rank(download_speeds)
  \/ Unwind

SpecFault == InitFault /\ [][NextFault]_vars

(***************************************************************************)
(* A run in which the write of the ledger can fail: open(success_file,     *)
(* 'w') or f.write raises inside save_success_proxy.  In the loop over the *)
(* completed futures the call is outside every try block; the call after   *)
(* the summary is inside try ... except: pass.                             *)
(***************************************************************************)
\* what a failed write leaves of the file f when lines ls were to be
\* written: f as it was (the open raised), or the lines written before
\* f.write raised
failed_write(f, ls) ==
  {f} \cup {[exists |-> TRUE, lines |-> SubSeq(ls, 1, n)] : n \in 0..(Len(ls) - 1)}

\* main, in save_success_proxy: the write raises and the lock is released
SaveFail ==
  /\ main.pc = "saving"
  /\ success_file' \in
       failed_write(success_file,
                    save_success_proxy(success_file, main.cur.proxy,
                                       main.cur.avg_response_time, TRUE).lines)
  /\ file_lock' = NoThread
  /\ main' = [main EXCEPT !.pc = IF main.final THEN "rank" ELSE "unwinding"]
  /\ UNCHANGED <<last_upsert, before_upsert, repeated, lines, test_times,
                 concurrency, task, counters, collected, success_proxies,
                 samplerVars, parseVars, scoreVars, selectVars, upsertVars>>

NextPersist ==
  \/ Next
  \/ SaveFail
  \/ Unwind

SpecPersist == Init /\ [][NextPersist]_vars

(***************************************************************************)
(* A run over an input that may list the same endpoint on two lines, the   *)
(* service reporting one of two latencies, neither of them 0, for each     *)
(* probe.                                                                  *)
(***************************************************************************)
DupResults ==
  { TimeoutResult, Reply("bool:True", Num(7)), Reply("bool:True", Num(10)) }

InitDup == Init /\ lines \in SeqsUpTo(ValidLines, MaxLines)

NextDup ==
  \/ Submit
  \/ \E t \in DOMAIN task : Start(t)
  \/ \E t \in DOMAIN task, r \in DupResults : Trial(t, r)
  \/ \E t \in DOMAIN task : Acquire(t)
  \/ \E t \in DOMAIN task : CountTotal(t)
  \/ \E t \in DOMAIN task : CountStatus(t)
  \/ \E t \in DOMAIN task : Collect(t)
  \/ SaveLock
  \/ SaveWrite
  \/ Summarise
  \/ \E download_speeds \in RunSpeeds : Rank(download_speeds)

SpecDup == InitDup /\ [][NextDup]_vars

(***************************************************************************)
(* Claims about a run.                                                     *)
(***************************************************************************)
\* C5: at any moment the number of endpoints whose sampler has started and
\* not finished is at most the worker budget.
C5_BoundedInFlight == Cardinality(InFlight) <= concurrency

\* C5 witness: more endpoints than workers, every worker sampling, and an
\* endpoint left waiting in the queue.
C5_Witness ==
  /\ main.pc # "idle"
  /\ Cardinality(InFlight) = concurrency
  /\ \E t \in DOMAIN task : task[t].pc = "queued" /\ parse_line(lines[t]).ok

\* the tasks of the lines that hold a valid endpoint
ValidTasks == {t \in DOMAIN task : lines[t] \in ValidLines}

\* the sampler of task t has never been called
NeverProbed(t) ==
  /\ task[t].pc \in {"new", "queued", "done"}
  /\ task[t].smp = NewSampler
  /\ ~task[t].ret.some

\* C7: in a run whose input holds exactly one valid endpoint line, the other
\* lines being bad-port, comment or blank lines, only that endpoint is ever
\* probed; the counters stay at zero until its sampling has been counted, so
\* the rejected lines change none; and when the run has ended with its
\* sampling failed, the counters are total = 1, success = 0, failed = 1.
C7_EndToEnd ==
  (main.pc # "idle" /\ Cardinality(ValidTasks) = 1) =>
    LET v == CHOOSE t \in ValidTasks : TRUE
    IN /\ \A t \in DOMAIN task : t # v => NeverProbed(t)
       /\ task[v].proxy \in {<<>>, <<"h", ":", "8">>, <<"g", ":", "8", "0">>}
       /\ task[v].pc \in {"new", "queued", "probing", "sampled", "count_total"}
            => counters = ZeroCounters
       /\ task[v].pc \in {"count_status", "done"} => counters.total = 1
       /\ (main.pc = "done" /\ task[v].smp.result.status # "success") =>
            /\ counters.total = 1
            /\ counters.success = 0
            /\ counters.failed = 1

\* C7 witness: a run over a bad-port line and a valid line has ended, the
\* bad-port line consumed first, the one endpoint probed and failed, and the
\* counters at total = 1, success = 0, failed = 1.
C7_Witness ==
  /\ main.pc = "done"
  /\ Len(lines) = 2
  /\ lines[1] \in BadPortLines
  /\ lines[2] \in ValidLines
  /\ task[1].pc = "done"
  /\ Len(task[2].smp.probes) = 1
  /\ task[2].smp.result.status = "error"
  /\ counters = [total |-> 1, success |-> 0, failed |-> 1, timeout |-> 0]

\* C15: a run over an input without a valid endpoint never ends normally
\* (it aborts, with a non-zero exit status) and issues no probe; a run over
\* an input with a valid endpoint is never aborted.
C15_FatalPreconditions ==
  /\ (main.pc # "idle" /\ ValidTasks = {}) =>
       /\ main.pc # "done"
       /\ \A t \in DOMAIN task : NeverProbed(t)
  /\ (main.pc # "idle" /\ ValidTasks # {}) =>
       main.pc \notin {"unwinding", "aborted"}

\* the keys of the lines of the ledger file
LedgerKeys ==
  {proxy_part(success_file.lines[j]) : j \in 1..Len(success_file.lines)}

\* C14: when a run has ended, every endpoint of the top-N output is the key
\* of a line of the ledger file.
C14_ScoredImpliesRanked ==
  (main.pc = "done" /\ selected.called) =>
    \A i \in 1..Len(selected.top_proxies) :
      selected.top_proxies[i].proxy \in LedgerKeys

\* every submitted task has ended, and so has main
RunEnded ==
  /\ main.pc \in {"done", "aborted"}
  /\ \A t \in DOMAIN task : task[t].pc \in {"done", "raised"}

\* C12: when a run in which the processing of an endpoint raised has ended,
\* main has ended normally, the endpoint that raised is counted as failed
\* (every endpoint is counted, and the successes and failures add up), and
\* every endpoint that succeeded has been collected, is a line of the ledger
\* and is in the scored output.
C12_FaultIsolation ==
  (RunEnded /\ \E t \in DOMAIN task : task[t].pc = "raised") =>
    /\ main.pc = "done"
    /\ counters.total = Len(lines)
    /\ counters.success = Cardinality({u \in DOMAIN task : task[u].ret.some})
    /\ counters.failed = counters.total - counters.success
    /\ \A u \in DOMAIN task : task[u].ret.some =>
         /\ u \in collected
         /\ task[u].proxy \in LedgerKeys
         /\ \E i \in 1..Len(selected.top_proxies) :
              selected.top_proxies[i].proxy = task[u].proxy

\* the tasks that are inside the with file_lock block of process_proxy_line
Counting == {t \in DOMAIN task : task[t].pc \in {"count_total", "count_status"}}

\* C17: at most one worker at a time is updating the counters, and it holds
\* the lock; once every worker has finished, total is the number of
\* endpoints that were probed.
C17_NoLostIncrement ==
  /\ Cardinality(Counting) <= 1
  /\ \A t \in Counting : file_lock = t
  /\ (\A t \in DOMAIN task : task[t].pc \in {"done", "raised"}) =>
       counters.total =
         Cardinality({t \in DOMAIN task : Len(task[t].smp.probes) > 0})

\* the result of task t has been collected and its endpoint is a line of
\* the ledger
Ranked(t) ==
  /\ task[t].ret.some
  /\ t \in collected
  /\ task[t].proxy \in LedgerKeys

\* the result of task t has been collected and its endpoint is in the
\* scored output
Scored(t) ==
  /\ selected.called
  /\ task[t].ret.some
  /\ t \in collected
  /\ \E i \in 1..Len(selected.top_proxies) :
       selected.top_proxies[i].proxy = task[t].proxy

\* the state of the endpoint of task t in the pipeline: 0 none yet (or a
\* line without endpoint), 2 Probing, 3 Verified, 4 Ranked, 5 Scored, and
\* 9 Failed; process_proxy_line parses the line and calls the sampler in
\* one go, so that Parsed (1) is passed through on the way from 0 to 2
Stage(t) ==
  IF task[t].pc \in {"new", "queued"} \/ task[t].proxy = <<>> THEN 0
  ELSE IF task[t].pc = "probing" THEN 2
  ELSE IF task[t].smp.result.status # "success" THEN 9
  ELSE IF Scored(t) THEN 5
  ELSE IF Ranked(t) THEN 4
  ELSE 3

\* the moves of the pipeline
PipelineEdges == {<<0, 0>>, <<0, 2>>, <<2, 2>>, <<2, 3>>, <<2, 9>>, <<3, 3>>,
                  <<3, 4>>, <<4, 4>>, <<4, 5>>, <<5, 5>>, <<9, 9>>}

\* C20: every step takes each endpoint along the pipeline Parsed -> Probing
\* -> {Verified | Failed} -> Ranked -> Scored or leaves it where it is; a
\* Failed endpoint stays Failed, so it is never upserted nor scored; and an
\* endpoint becomes Ranked only with all its trials issued and successful.
C20_PipelineOrder ==
  [][\A t \in DOMAIN task :
       /\ <<Stage(t), Stage(t)'>> \in PipelineEdges
       /\ (Ranked(t)' \/ Scored(t)') => Stage(t) # 9
       /\ Ranked(t)' =>
            /\ Len(task[t].smp.probes) = test_times
            /\ \A k \in 1..Len(task[t].smp.probes) :
                 IsSuccess(task[t].smp.probes[k])]_vars


\* C23: main abandons the loop over the completed futures only when a
\* worker's call raised; a failed write of the ledger does not end the run
\* before the summary and the ranking.
C23_PersistenceContained ==
  main.pc \in {"unwinding", "aborted"} => \E t \in DOMAIN task : task[t].pc = "raised"

\* C24: when a run has ended, every endpoint whose summary is a success,
\* counted in counters['success'], is the key of a line of the ledger file.
C24_EverySuccessRanked ==
  main.pc = "done" =>
    \A t \in DOMAIN task : task[t].ret.some => task[t].proxy \in LedgerKeys

\* the endpoints that were probed and whose processing has ended
Ended == {t \in DOMAIN task : task[t].pc \in {"done", "raised"} /\ Len(task[t].smp.probes) > 0}

\* C26: while no worker is between the lock and its release, total is the
\* sum of success and failed, timeout is at most failed, and every probed
\* endpoint whose processing has ended is counted once, in success when it
\* returned a result and in failed when it did not.
C26_CounterConsistency ==
  Counting = {} =>
    /\ counters.total = counters.success + counters.failed
    /\ counters.timeout <= counters.failed
    /\ counters.success = Cardinality({t \in Ended : task[t].ret.some})
    /\ counters.failed = Cardinality({t \in Ended : ~task[t].ret.some})

\* C27: under fair scheduling every run ends: main reaches the end with
\* every valid endpoint sampled and counted and the lock free; and the lock
\* is taken only when no thread holds it.
C27_Termination ==
  /\ <>[](/\ main.pc = "done"
          /\ file_lock = NoThread
          /\ \A t \in DOMAIN task : task[t].pc = "done"
          /\ \A t \in ValidTasks : returned(task[t].smp))
  /\ [][file_lock' \notin {file_lock, NoThread} => file_lock = NoThread]_vars

\* C27 witness: a run with one worker thread over two valid endpoints has
\* ended; both were sampled, and main took the lock to write the ledger.
C27_Witness ==
  /\ main.pc = "done"
  /\ concurrency = 1
  /\ Cardinality(ValidTasks) = 2
  /\ \A t \in ValidTasks : returned(task[t].smp)
  /\ counters.total = 2
  /\ Len(success_file.lines) = 2
  /\ file_lock = NoThread

\* C29: the save made after the summary, for the first result with the
\* least mean, leaves the ledger file as the saves made in the loop over
\* the completed futures left it.
C29_FinalUpsertNoOp ==
  (main.final /\ main.pc \in {"rank", "done"}) => success_file = before_upsert

(***************************************************************************)
(* The parsers driven on their own: each is applied to lines made of a     *)
(* leading text, a host, a separator and a port token.                     *)
(***************************************************************************)
Token(text, valid, value) == [text |-> text, valid |-> valid, value |-> value]

\* port tokens, each with whether it is an integer in [1, 65535] and which
PortTokens ==
  { Token(<<"1">>, TRUE, 1), Token(<<"8", "0">>, TRUE, 80),
    Token(<<"0", "8", "0">>, TRUE, 80), Token(<<"4", "4", "3">>, TRUE, 443),
    Token(<<"6", "5", "5", "3", "5">>, TRUE, 65535),
    Token(<<"0">>, FALSE, 0), Token(<<"6", "5", "5", "3", "6">>, FALSE, 0),
    Token(<<"a", "b", "c">>, FALSE, 0), Token(<<"8", "x">>, FALSE, 0),
    Token(<<"-", "1">>, FALSE, 0), Token(<<>>, FALSE, 0) }

ParseHosts == { <<>>, <<"h">>, <<"1", ".", "2", ".", "3", ".", "4">> }

ParseLeads == { <<>>, <<" ">>, <<"#">> }

ParseSeps == { <<" ">>, <<":">> }

\* the line as read from the file, with its line end
Render(lead, host, sep, tok) == lead \o host \o sep \o tok.text \o <<"\n">>

InitParse ==
  /\ parsed = NoParse
  /\ LedgerIdle
  /\ SamplerIdle
  /\ RunIdle
  /\ ScoreIdle
  /\ SelectIdle
  /\ UpserterIdle

Case(by, lead, host, sep, tok) ==
  [by |-> by, lead |-> lead, host |-> host, sep |-> sep, tok |-> tok,
   endpoint |-> NoEndpoint, extract |-> NoExtract]

\* process_proxy_line reads a line
ParseLine(lead, host, sep, tok) ==
  /\ parsed' = [Case("process_proxy_line", lead, host, sep, tok)
                  EXCEPT !.endpoint = parse_line(Render(lead, host, sep, tok))]
  /\ UNCHANGED <<ledgerVars, samplerVars, runVars, scoreVars, selectVars, upsertVars>>

\* parse_proxy_entry reads an entry of the proxy list
ParseEntry(lead, host, sep, tok) ==
  /\ parsed' = [Case("parse_proxy_entry", lead, host, sep, tok)
                  EXCEPT !.endpoint = parse_proxy_entry(Render(lead, host, sep, tok))]
  /\ UNCHANGED <<ledgerVars, samplerVars, runVars, scoreVars, selectVars, upsertVars>>

\* the TXT branch of iptest.py reads a line
ExtractTxt(lead, host, sep, tok) ==
  /\ parsed' = [Case("extract_txt_line", lead, host, sep, tok)
                  EXCEPT !.extract = extract_txt_line(Render(lead, host, sep, tok))]
  /\ UNCHANGED <<ledgerVars, samplerVars, runVars, scoreVars, selectVars, upsertVars>>

NextParse ==
  \E lead \in ParseLeads, host \in ParseHosts, sep \in ParseSeps, tok \in PortTokens :
    \/ ParseLine(lead, host, sep, tok)
    \/ ParseEntry(lead, host, sep, tok)
    \/ ExtractTxt(lead, host, sep, tok)

SpecParse == InitParse /\ [][NextParse]_vars

(***************************************************************************)
(* Claims about the parsers.                                               *)
(***************************************************************************)
\* the line is "host port" (or "host:port"), not a comment, host not empty
HostPortLine(sep) ==
  /\ parsed.lead # <<"#">>
  /\ parsed.host # <<>>
  /\ parsed.sep = sep

DottedQuad == <<"1", ".", "2", ".", "3", ".", "4">>

ScoreLatencies ==
  {-1000000, -5, 0, 1, 500, 1000, 1999, 2000, 2001, 9999, 1000000}

\* throughput texts that hold no number float() accepts
UnparsableTexts ==
  { <<"N", "/", "A">>, <<".">>, <<"1", ".", "2", ".", "3">>,
    <<"k", "B", "/", "s">>, <<"1", ".", ".", "5", " ", "M", "B", "/", "s">> }

\* the empty text, which also stands for a key the throughput table lacks
\* (download_speeds.get(proxy, ""))
EmptyText == <<>>

ParsableTexts ==
  { <<"5", "1", "2", " ", "k", "B", "/", "s">>,
    <<"2", ".", "5", " ", "M", "B", "/", "s">>,
    <<"6", "0", " ", "M", "B", "/", "s">>,
    <<"5", "0", "M", "b", "p", "s">>,
    <<"7", "5">>,
    <<"0", " ", "k", "B", "/", "s">>,
    <<"1", "2", ".", "5", " ", "K", "B", "P", "S">> }

SpeedTexts == {EmptyText} \cup UnparsableTexts \cup ParsableTexts

InitScore ==
  /\ scored = NoScore
  /\ LedgerIdle
  /\ SamplerIdle
  /\ RunIdle
  /\ ParseIdle
  /\ SelectIdle
  /\ UpserterIdle

Score(latency_ms, download_speed_str) ==
  /\ LET c == calculate_score(latency_ms, download_speed_str)
     IN scored' = [called |-> TRUE, latency_ms |-> latency_ms,
                   download_speed_str |-> download_speed_str,
                   latency_score |-> c.latency_score, speed_num |-> c.speed_num,
                   speed_score |-> c.speed_score, score |-> c.score]
  /\ UNCHANGED <<ledgerVars, samplerVars, runVars, parseVars, selectVars, upsertVars>>

NextScore ==
  \E latency_ms \in ScoreLatencies, download_speed_str \in SpeedTexts :
    Score(latency_ms, download_speed_str)

SpecScore == InitScore /\ [][NextScore]_vars

(***************************************************************************)
(* Claims about the scorer.                                                *)
(***************************************************************************)
\* C8: the latency score is 100 for a latency of 0 or less, 0 for 2000 or
\* more, and 100 * (1 - latency / 2000) in between; 0 gives 100, 2000 gives
\* 0 and 1000 gives 50.
C8_LatencyScore ==
  scored.called =>
    /\ scored.latency_ms <= 0 => scored.latency_score = 100 * Unit
    /\ scored.latency_ms >= 2000 => scored.latency_score = 0
    /\ (0 < scored.latency_ms /\ scored.latency_ms < 2000) =>
         20 * scored.latency_score = Unit * (2000 - scored.latency_ms)
    /\ scored.latency_ms = 1000 => scored.latency_score = 50 * Unit

\* C8 witness: the score of a latency strictly between the two ends.
C8_Witness ==
  /\ scored.called
  /\ scored.latency_ms = 500
  /\ scored.latency_score = 75 * Unit

\* C9: an empty or unparsable throughput text gives speed score 0, and the
\* composite is 0.6 times the latency score; score(500, "") is 45.00.
C9_NoThroughput ==
  (scored.called /\ scored.download_speed_str \in {EmptyText} \cup UnparsableTexts) =>
    /\ scored.speed_score = 0
    /\ scored.score * 10 * (Unit \div 100) = 6 * scored.latency_score
    /\ (scored.latency_ms = 500 /\ scored.download_speed_str = EmptyText) =>
         scored.score = 4500

\* C9 witness: a text with digits that float() rejects, scored at latency 500.
C9_Witness ==
  /\ scored.called
  /\ scored.latency_ms = 500
  /\ scored.download_speed_str = <<"1", ".", "2", ".", "3">>
  /\ scored.score = 4500

\* C13: for every latency, negative and very large ones included, and every
\* throughput text, the score returned lies in [0, 100] (counted in
\* hundredths), both sub-scores lie in [0, 100], a scaled speed of 5000 or
\* more contributes exactly 100 and one of 0 or less contributes 0.
C13_ScoreRange ==
  scored.called =>
    /\ 0 <= scored.score /\ scored.score <= 100 * 100
    /\ 0 <= scored.latency_score /\ scored.latency_score <= 100 * Unit
    /\ 0 <= scored.speed_score /\ scored.speed_score <= 100 * Unit
    /\ scored.speed_num >= 5000 * Unit => scored.speed_score = 100 * Unit
    /\ scored.speed_num <= 0 => scored.speed_score = 0

\* C13 witness: a speed above the cap ("60 MB/s" scales to 6000) scored with
\* a negative latency, which gives the greatest score, 100.00.
C13_Witness ==
  /\ scored.called
  /\ scored.latency_ms = -5
  /\ scored.download_speed_str = <<"6", "0", " ", "M", "B", "/", "s">>
  /\ scored.speed_num = 6000 * Unit
  /\ scored.speed_score = 100 * Unit
  /\ scored.score = 100 * 100

(***************************************************************************)
(* The ranking driven on its own: select_top_proxies applied to a          *)
(* dictionary of results, a dictionary of throughput texts and a top_n.    *)
(***************************************************************************)
SelectKeys == { <<"h", ":", "8">>, <<"h", ":", "8", "0">>, <<"g", ":", "8">> }

\* mean latencies; 0 and 3000 get the two extreme latency scores
SelectLatencies == {0, 500, 3000}

\* throughput texts: one that scores 0 and one that scores 100
SelectTexts == { <<"N", "/", "A">>, <<"6", "0", " ", "M", "B", "/", "s">> }

SelectTopNs == {1, 2, TopN}

\* the dictionaries of results: sequences of items with different keys
SelectResults ==
  {q \in UNION {[1..k -> [proxy : SelectKeys,
                           avg_response_time : SelectLatencies]] :
                  k \in 0..Cardinality(SelectKeys)} :
     \A i, j \in 1..Len(q) : q[i].proxy = q[j].proxy => i = j}

SelectSpeeds == UNION {[K -> SelectTexts] : K \in SUBSET SelectKeys}

InitSelect ==
  /\ selected = NoSelect
  /\ LedgerIdle
  /\ SamplerIdle
  /\ RunIdle
  /\ ParseIdle
  /\ ScoreIdle
  /\ UpserterIdle

\* one call of select_top_proxies
Select(proxy_results, download_speeds, top_n) ==
  /\ ~selected.called
  /\ selected' = [called |-> TRUE, proxy_results |-> proxy_results,
                  download_speeds |-> download_speeds, top_n |-> top_n,
                  top_proxies |-> select_top_proxies(proxy_results,
                                                     download_speeds, top_n)]
  /\ UNCHANGED <<ledgerVars, samplerVars, runVars, parseVars, scoreVars, upsertVars>>

NextSelect ==
  \E proxy_results \in SelectResults, download_speeds \in SelectSpeeds,
     top_n \in SelectTopNs :
    Select(proxy_results, download_speeds, top_n)

SpecSelect == InitSelect /\ [][NextSelect]_vars

(***************************************************************************)
(* Claims about the ranking.                                               *)
(***************************************************************************)
\* the score the scorer gives to an item of the results
ScoreOf(item, download_speeds) ==
  calculate_score(item.avg_response_time,
                  IF item.proxy \in DOMAIN download_speeds
                  THEN download_speeds[item.proxy] ELSE <<>>).score

\* C16: the ranking returns min(N, number of results) entries, each one a
\* result joined with the throughput text of its key (the empty text when
\* the table has none), no result twice, in non-increasing order of score,
\* and no result left out has a score strictly higher than a returned one.
C16_TopN ==
  selected.called =>
    LET in == selected.proxy_results
        out == selected.top_proxies
        ds == selected.download_speeds
        pos(i) == CHOOSE k \in 1..Len(in) : in[k].proxy = out[i].proxy
        kept == {pos(i) : i \in 1..Len(out)}
    IN /\ Len(out) <= selected.top_n
       /\ Len(out) = IF Len(in) < selected.top_n THEN Len(in) ELSE selected.top_n
       /\ \A i \in 1..Len(out) :
            /\ \E k \in 1..Len(in) : in[k].proxy = out[i].proxy
            /\ out[i].latency = in[pos(i)].avg_response_time
            /\ out[i].speed_str = IF out[i].proxy \in DOMAIN ds
                                  THEN ds[out[i].proxy] ELSE <<>>
            /\ out[i].score = ScoreOf(in[pos(i)], ds)
       /\ \A i, j \in 1..Len(out) : out[i].proxy = out[j].proxy => i = j
       /\ \A i \in 1..(Len(out) - 1) : out[i].score >= out[i + 1].score
       /\ \A k \in 1..Len(in) : k \notin kept =>
            \A i \in 1..Len(out) : ScoreOf(in[k], ds) <= out[i].score

\* C16 witness: three results ranked with top_n = 2; the one with the
\* highest score was the last in the dictionary, one returned entry has no
\* throughput record, and the result left out scores less.
C16_Witness ==
  /\ selected.called
  /\ selected.top_n = 2
  /\ Len(selected.proxy_results) = 3
  /\ Len(selected.top_proxies) = 2
  /\ selected.top_proxies[1].proxy = selected.proxy_results[3].proxy
  /\ selected.top_proxies[1].score > selected.top_proxies[2].score
  /\ selected.top_proxies[2].proxy \notin DOMAIN selected.download_speeds
  /\ selected.top_proxies[2].speed_str = <<>>
  /\ selected.top_proxies[2].score > ScoreOf(selected.proxy_results[1],
                                              selected.download_speeds)

(***************************************************************************)
(* Threads calling save_success_proxy at the same time, each with its own  *)
(* key: the lock, the read, the open for writing and the write are         *)
(* separate steps.                                                         *)
(***************************************************************************)
MaxUpserters == 2

\* the key each thread upserts; "h:8" is a prefix of "h:80"
UpserterKeys == << <<"h", ":", "8">>, <<"h", ":", "8", "0">>, <<"a", ":", "1">> >>

UpserterLatencies == {7, 10}

\* a ledger left by an earlier run
OneLineFile == [exists |-> TRUE, lines |-> << <<"g", ":", "8", "#", "9", "m", "s">> >>]

\* the lock taken whether or not another thread holds it
acquirable_always(lock) == TRUE

\* threading.Lock: acquired only when no thread holds it
acquirable(lock) == lock = NoThread

\* the lines the thread is about to write
content(u) ==
  sort_lines(update_or_append(upserter[u].existing_lines, upserter[u].proxy,
                              new_line(upserter[u].proxy,
                                       upserter[u].avg_response_time)))

InitUpserters ==
  /\ success_file \in {AbsentFile, OneLineFile}
  /\ last_upsert = NoUpsert
  /\ before_upsert = success_file
  /\ repeated = FALSE
  /\ upserter \in [1..MaxUpserters ->
                     [pc : {"call"}, proxy : {UpserterKeys[i] : i \in 1..Len(UpserterKeys)},
                      avg_response_time : UpserterLatencies,
                      existing_lines : {<<>>}]]
  /\ \A u \in 1..MaxUpserters : upserter[u].proxy = UpserterKeys[u]
  /\ SamplerIdle
  /\ RunIdle
  /\ ParseIdle
  /\ ScoreIdle
  /\ SelectIdle

\* with file_lock:
UpAcquire(u) ==
  /\ upserter[u].pc = "call"
  /\ acquirable(file_lock)
  /\ file_lock' = u
  /\ upserter' = [upserter EXCEPT ![u].pc = "locked"]
  /\ UNCHANGED <<lines, test_times, concurrency, task, counters, main,
                 collected, success_proxies, ledgerVars, samplerVars,
                 parseVars, scoreVars, selectVars>>

\* existing_lines = [line.strip() for line in f.readlines() if line.strip()]
UpRead(u) ==
  /\ upserter[u].pc = "locked"
  /\ upserter' = [upserter EXCEPT
                    ![u].existing_lines = existing_lines(success_file, TRUE),
                    ![u].pc = "read"]
  /\ UNCHANGED <<runVars, ledgerVars, samplerVars, parseVars, scoreVars,
                 selectVars>>

\* open(success_file, 'w'): the file is created or cut to no content
UpOpen(u) ==
  /\ upserter[u].pc = "read"
  /\ success_file' = [exists |-> TRUE, lines |-> <<>>]
  /\ upserter' = [upserter EXCEPT ![u].pc = "opened"]
  /\ UNCHANGED <<last_upsert, before_upsert, repeated, runVars, samplerVars,
                 parseVars, scoreVars, selectVars>>

\* the lines written, the file closed and the lock released
UpClose(u) ==
  /\ upserter[u].pc = "opened"
  /\ success_file' = [exists |-> TRUE, lines |-> content(u)]
  /\ file_lock' = NoThread
  /\ upserter' = [upserter EXCEPT ![u].pc = "done"]
  /\ UNCHANGED <<last_upsert, before_upsert, repeated, lines, test_times,
                 concurrency, task, counters, main, collected,
                 success_proxies, samplerVars, parseVars, scoreVars,
                 selectVars>>

NextUpserters ==
  \E u \in DOMAIN upserter :
    \/ UpAcquire(u)
    \/ UpRead(u)
    \/ UpOpen(u)
    \/ UpClose(u)

SpecUpserters == InitUpserters /\ [][NextUpserters]_vars

(***************************************************************************)
(* Claims about concurrent upserts.                                        *)
(***************************************************************************)
\* the threads between taking the lock and releasing it
InSection == {u \in DOMAIN upserter : upserter[u].pc \in {"locked", "read", "opened"}}

\* C18: at most one thread at a time is between the lock and its release,
\* and it is the holder of file_lock; once every thread has returned, the
\* ledger holds the key of every thread and every key it held at the start.
C18_NoLostUpdate ==
  /\ \A u, v \in InSection : u = v /\ file_lock = u
  /\ (\A u \in DOMAIN upserter : upserter[u].pc = "done") =>
       /\ \A u \in DOMAIN upserter : upserter[u].proxy \in LedgerKeys
       /\ \A j \in 1..Len(before_upsert.lines) :
            proxy_part(before_upsert.lines[j]) \in LedgerKeys
       /\ Len(success_file.lines)
            = Len(before_upsert.lines) + Cardinality(DOMAIN upserter)

\* C18 witness: two threads have returned; the second took the lock while
\* the ledger already held the line of the first, and both keys and the
\* line of the earlier run are in the ledger.
C18_Witness ==
  /\ \A u \in DOMAIN upserter : upserter[u].pc = "done"
  /\ Len(before_upsert.lines) = 1
  /\ Len(upserter[2].existing_lines) = 1
  /\ Len(upserter[1].existing_lines) = 2
  /\ upserter[1].proxy \in LedgerKeys
  /\ upserter[2].proxy \in LedgerKeys

\* C19: while a thread is inside an upsert, the ledger file holds either
\* the lines it held before the upsert or the lines the upsert writes.
C19_AtomicOverwrite ==
  \A u \in DOMAIN upserter :
    upserter[u].pc \in {"read", "opened"} =>
      \/ success_file.lines = upserter[u].existing_lines
      \/ success_file.lines = content(u)

====
